---------------------------- MODULE Spec2Model ----------------------------
(***************************************************************************)
(* Model of documents/utils/document_processor.py (DocumentProcessor):     *)
(* the diagnostic logger, the three quality scorers, the metrics            *)
(* aggregator and the process_document orchestrator; and of                 *)
(* documents/utils/image_processor.py (ImageProcessor): save_image and      *)
(* _optimize_image.                                                         *)
(*                                                                         *)
(* Conventions                                                             *)
(*  - A Python optional value is a sequence of length 0 (None / argument    *)
(*    or key absent) or 1 (the value): None == <<>>, Some(v) == <<v>>.      *)
(*  - A text (str) is a sequence of code points, so that ord(c) is c.       *)
(*  - A float score is an exact rational <<num, den>> with den > 0.  The    *)
(*    code compares its floats only with 10, 50, 0.5 and 0.3; at the sizes  *)
(*    modelled a quotient either equals the threshold exactly (and the      *)
(*    double does too) or differs from it by far more than a rounding       *)
(*    error, so the exact comparison decides as the float one does.         *)
(*  - A value stored with round(x, 2) is an integer number of hundredths.   *)
(*  - The floats of the image optimizer are truncated by int(): they are     *)
(*    computed digit by digit as IEEE 754 doubles.                           *)
(*  - Accents are dropped from the French message strings.                  *)
(***************************************************************************)
EXTENDS Integers, Sequences, FiniteSets, TLC

VARIABLES
    extraction_metrics,   \* self.extraction_metrics
    current_page_number,  \* the attribute log_extraction_error reads with getattr
    current_page_count,   \* self.current_page_count (update_extraction_metrics)
    document,             \* self.document, the in-memory document fields
    db,                   \* what the persistence collaborator holds
    pc,                   \* position of the running operation
    args,                 \* the arguments of the operation under study
    ret                   \* the value returned by the last call

vars == <<extraction_metrics, current_page_number, current_page_count,
          document, db, pc, args, ret>>

----------------------------------------------------------------------------
(* Bounds of the enumerated inputs *)

MaxLen == 3
MaxExp == 2
PadLen == 8

----------------------------------------------------------------------------
(* Python values *)

None == <<>>
Some(v) == <<v>>
IsNone(o) == o = <<>>
Val(o) == o[1]

Min2(a, b) == IF a <= b THEN a ELSE b
Max2(a, b) == IF a >= b THEN a ELSE b
Abs(x) == IF x < 0 THEN -x ELSE x

(* exact rationals standing for the floats *)
R(n) == <<n, 1>>
RLeq(a, b) == a[1] * b[2] <= b[1] * a[2]
RLt(a, b) == a[1] * b[2] < b[1] * a[2]
REq(a, b) == a[1] * b[2] = b[1] * a[2]
RSub(a, b) == <<a[1] * b[2] - b[1] * a[2], a[2] * b[2]>>
RMin(a, b) == IF RLeq(a, b) THEN a ELSE b
RMax(a, b) == IF RLeq(b, a) THEN a ELSE b

(* round(x, 2), in hundredths; no modelled value falls on a tie *)
Round2(a) == (200 * a[1] + a[2]) \div (2 * a[2])

RECURSIVE Join(_, _)
(* sep.join(list) *)
Join(sep, list) ==
    IF list = <<>> THEN ""
    ELSE IF Len(list) = 1 THEN list[1]
    ELSE list[1] \o sep \o Join(sep, Tail(list))

(* list[:k] *)
Take(list, k) == SubSeq(list, 1, Min2(k, Len(list)))

----------------------------------------------------------------------------
(* Diagnostic logger *)

(* apply_automatic_corrections: the remediation list of an error type *)
apply_automatic_corrections(error_type) ==
    IF error_type = "encoding" THEN
        << "Re-encoder le document avec UTF-8",
           "Utiliser un OCR avec detection automatique d'encodage",
           "Convertir le document en PDF avant extraction" >>
    ELSE IF error_type = "image_extraction" THEN
        << "Augmenter la resolution DPI pour l'extraction",
           "Utiliser un algorithme d'amelioration d'image",
           "Convertir les images en format standard (PNG/JPEG)" >>
    ELSE IF error_type = "table_parsing" THEN
        << "Appliquer un pre-traitement de detection de bordures",
           "Utiliser un algorithme specialise pour tableaux complexes",
           "Convertir en format avec grille structuree" >>
    ELSE IF error_type = "text_ocr" THEN
        << "Appliquer un filtre de debruitage d'image",
           "Utiliser un modele OCR plus avance",
           "Ameliorer la resolution du document source" >>
    ELSE IF error_type = "layout_analysis" THEN
        << "Appliquer une detection automatique de colonnes",
           "Utiliser un algorithme de segmentation de page",
           "Re-analyser avec detection de zones de texte" >>
    ELSE IF error_type = "font_detection" THEN
        << "Normaliser les polices vers des equivalents standard",
           "Utiliser une bibliotheque de substitution de polices",
           "Convertir en format texte uniforme" >>
    ELSE
        << "Retraiter le document avec des parametres optimises",
           "Utiliser un processeur alternatif",
           "Verifier l'integrite du fichier source" >>

(* line 66 without the slice: every entry of the list is joined *)
AutoSuggestedFixUnsliced(error_type) ==
    Join("; ", apply_automatic_corrections(error_type))

(* the suggestion derived when no fix is given: "; ".join(auto_corrections[:2]) *)
AutoSuggestedFix(error_type) ==
    Join("; ", Take(apply_automatic_corrections(error_type), 2))

(* log_extraction_error with the page taken from current_page_count, the   *)
(* attribute update_extraction_metrics sets on line 204                    *)
log_extraction_error_page_count(errors, error_type, severity, message, details, page_number, element_type, suggested_fix) ==
    LET page == IF IsNone(page_number)
                THEN (IF IsNone(current_page_count) THEN 1
                      ELSE Val(current_page_count))
                ELSE Val(page_number)
        fix == IF IsNone(suggested_fix)
               THEN AutoSuggestedFix(error_type)
               ELSE Val(suggested_fix)
    IN Append(errors,
              [ error_type    |-> error_type,
                severity      |-> severity,
                message       |-> message,
                details       |-> details,
                page_number   |-> page,
                element_type  |-> element_type,
                suggested_fix |-> fix ])

(* log_extraction_error: the error list after the call.  details,          *)
(* page_number, element_type and suggested_fix are optional.               *)
log_extraction_error(errors, error_type, severity, message, details, page_number, element_type, suggested_fix) ==
    LET page == IF IsNone(page_number)
                THEN (IF IsNone(current_page_number) THEN 1
                      ELSE Val(current_page_number))
                ELSE Val(page_number)
        fix == IF IsNone(suggested_fix)
               THEN AutoSuggestedFix(error_type)
               ELSE Val(suggested_fix)
    IN Append(errors,
              [ error_type    |-> error_type,
                severity      |-> severity,
                message       |-> message,
                details       |-> details,
                page_number   |-> page,
                element_type  |-> element_type,
                suggested_fix |-> fix ])

----------------------------------------------------------------------------
(* Text quality *)

(* c in the corruption-marker string of line 87: U+FFFD (twice), U+25A1, '?' *)
MarkerChars == {65533, 9633, 63}

IsCorrupted(c) == c > 65535 \/ c \in MarkerChars

(* the characters str.strip() removes, among those below U+0100 *)
IsSpace(c) == c \in {9, 10, 11, 12, 13, 28, 29, 30, 31, 32, 133, 160}

RECURSIVE Split(_, _)
(* text.split(sep) for a one-character separator: the pieces between the   *)
(* separators, one more piece than there are separators                    *)
Split(text, sep) ==
    IF \A i \in 1..Len(text) : text[i] # sep THEN <<text>>
    ELSE LET k == CHOOSE i \in 1..Len(text) :
                      text[i] = sep /\ \A j \in 1..(i - 1) : text[j] # sep
         IN <<SubSeq(text, 1, k - 1)>> \o Split(SubSeq(text, k + 1, Len(text)), sep)

(* not line.strip() *)
IsBlankLine(line) == \A i \in 1..Len(line) : IsSpace(line[i])

(* Python truth value of an optional integer *)
TruthyInt(o) == ~IsNone(o) /\ Val(o) # 0

(* the penalty of line 89, a text of n characters with c of them corrupted, *)
(* as the share of clean characters instead of the corrupted ones          *)
corruption_penalty_of_clean(c, n) == RMin(R(50), <<(n - c) * 100, n>>)

(* line 89: min(50, (corrupted_chars / len(extracted_text)) * 100) *)
corruption_penalty_of(c, n) == RMin(R(50), <<c * 100, n>>)

(* calculate_text_quality past its guard (lines 84-120): [ret, errors], the *)
(* score and the error list after                                           *)
text_quality_of(errors, extracted_text, expected_length) ==
    LET n == Len(extracted_text)
        corrupted_chars ==
            Cardinality({i \in 1..n : IsCorrupted(extracted_text[i])})
        corruption_penalty == corruption_penalty_of(corrupted_chars, n)
        score1 == IF corrupted_chars > 0
                  THEN RSub(R(100), corruption_penalty) ELSE R(100)
        errors1 ==
            IF corrupted_chars > 0 /\ RLt(R(10), corruption_penalty)
            THEN log_extraction_error(errors, "encoding", "medium",
                     "Detection de " \o ToString(corrupted_chars)
                         \o " caracteres corrompus",
                     Some([corrupted_chars |-> corrupted_chars, total_chars |-> n]),
                     None, None,
                     Some("Verifier l'encodage du document source"))
            ELSE errors
        lines == Split(extracted_text, 10)
        empty_lines ==
            Cardinality({i \in 1..Len(lines) : IsBlankLine(lines[i])})
        many_blank == RLt(<<1, 2>>, <<empty_lines, Len(lines)>>)
        score2 == IF many_blank THEN RSub(score1, R(20)) ELSE score1
        errors2 ==
            IF many_blank
            THEN log_extraction_error(errors1, "layout_analysis", "low",
                     "Beaucoup de lignes vides detectees",
                     Some([empty_lines_ratio |-> <<empty_lines, Len(lines)>>]),
                     None, None,
                     Some("Le document pourrait necessiter un OCR plus precis"))
            ELSE errors1
        length_off ==
            /\ TruthyInt(expected_length)
            /\ LET e == Val(expected_length)
               IN IF e > 0 THEN RLt(<<3, 10>>, <<Abs(n - e), e>>)
                  ELSE RLt(<<3, 10>>, <<-Abs(n - e), -e>>)
        score3 == IF length_off THEN RSub(score2, R(15)) ELSE score2
        errors3 ==
            IF length_off
            THEN log_extraction_error(errors2, "text_ocr", "medium",
                     "Difference significative avec la longueur attendue",
                     Some([extracted_length |-> n,
                           expected_length |-> Val(expected_length)]),
                     None, None, None)
            ELSE errors2
    IN [ret |-> RMax(R(0), score3), errors |-> errors3]

(* calculate_text_quality without the guard of lines 81-82 *)
calculate_text_quality_unguarded(errors, extracted_text, expected_length) ==
    text_quality_of(errors, extracted_text, expected_length)

(* calculate_text_quality: "if not extracted_text: return 0", then the score *)
calculate_text_quality(errors, extracted_text, expected_length) ==
    IF extracted_text = <<>> THEN [ret |-> R(0), errors |-> errors]
    ELSE text_quality_of(errors, extracted_text, expected_length)

----------------------------------------------------------------------------
(* Image quality *)

(* dict.get(key, default): a key is absent (<<>>) or holds a value (<<v>>), *)
(* and the value of an optional field may itself be None                    *)
DictGet(field, default) == IF field = <<>> THEN default ELSE field[1]

(* line 137 with "'data' in img_data" for the test *)
image_has_data_key(img_data) == img_data.data # <<>>

(* line 137: img_data.get('data') and len(img_data['data']) > 0 *)
image_has_data(img_data) ==
    LET d == DictGet(img_data.data, None)
    IN ~IsNone(d) /\ Len(Val(d)) > 0

(* line 140: "<" between None and an int raises TypeError; "or" evaluates  *)
(* the height only when the width is not below 50                          *)
image_size_raises(img_data) ==
    LET w == DictGet(img_data.width, Some(0))
        h == DictGet(img_data.height, Some(0))
    IN IsNone(w) \/ (Val(w) >= 50 /\ IsNone(h))

(* line 140, when it does not raise *)
image_is_small(img_data) ==
    LET w == DictGet(img_data.width, Some(0))
        h == DictGet(img_data.height, Some(0))
    IN Val(w) < 50 \/ Val(h) < 50

TypeErrorText == "'<' not supported between instances of 'NoneType' and 'int'"

RECURSIVE image_loop(_, _, _, _)
(* lines 134-158: the loop from candidate i on; acc = [errors, successful] *)
image_loop(acc, images_data, i, n) ==
    IF i > n THEN acc
    ELSE
    LET img_data == images_data[i]
        step ==
            IF image_has_data(img_data)
            THEN [ successful |-> acc.successful + 1,
                   errors |->
                     IF image_size_raises(img_data)
                     THEN log_extraction_error(acc.errors, "image_extraction", "high",
                              "Erreur lors du traitement de l'image " \o ToString(i)
                                  \o ": " \o TypeErrorText,
                              Some([image_index |-> i - 1, error |-> TypeErrorText]),
                              None, None, None)
                     ELSE IF image_is_small(img_data)
                     THEN log_extraction_error(acc.errors, "image_extraction", "low",
                              "Image " \o ToString(i) \o " de tres petite taille",
                              Some([width |-> DictGet(img_data.width, None),
                                    height |-> DictGet(img_data.height, None)]),
                              None, None,
                              Some("L'image pourrait etre de mauvaise qualite ou corrompue"))
                     ELSE acc.errors ]
            ELSE [ successful |-> acc.successful,
                   errors |->
                     log_extraction_error(acc.errors, "image_extraction", "medium",
                         "Echec d'extraction de l'image " \o ToString(i),
                         Some([image_index |-> i - 1]),
                         None, None, None) ]
    IN image_loop(step, images_data, i + 1, n)

(* lines 124-132 with "is not None" for the test of line 125 *)
no_images_quality_not_none(errors, total_images_detected) ==
    IF ~IsNone(total_images_detected)
    THEN [ ret |-> R(0),
           errors |-> log_extraction_error(errors, "image_extraction", "high",
                          "Aucune image extraite alors que "
                              \o ToString(Val(total_images_detected))
                              \o " ont ete detectees",
                          Some([detected |-> Val(total_images_detected), extracted |-> 0]),
                          None, None, None) ]
    ELSE [ret |-> R(100), errors |-> errors]

(* lines 124-132: no image was extracted *)
no_images_quality(errors, total_images_detected) ==
    IF TruthyInt(total_images_detected) /\ Val(total_images_detected) > 0
    THEN [ ret |-> R(0),
           errors |-> log_extraction_error(errors, "image_extraction", "high",
                          "Aucune image extraite alors que "
                              \o ToString(Val(total_images_detected))
                              \o " ont ete detectees",
                          Some([detected |-> Val(total_images_detected), extracted |-> 0]),
                          None, None, None) ]
    ELSE [ret |-> R(100), errors |-> errors]

(* calculate_image_quality: [ret, errors] *)
calculate_image_quality(errors, images_data, total_images_detected) ==
    IF images_data = <<>> THEN no_images_quality(errors, total_images_detected)
    ELSE LET n == Len(images_data)
             acc == image_loop([errors |-> errors, successful |-> 0],
                               images_data, 1, n)
         IN [ret |-> <<acc.successful * 100, n>>, errors |-> acc.errors]

----------------------------------------------------------------------------
(* Table quality *)

(* A markup text is a sequence of pieces, each a whole tag, a separator or  *)
(* a run of other text, so that content.count(s) is the number of pieces    *)
(* equal to s and "s in content" is Count(s, content) > 0.                  *)
Count(piece, content) == Cardinality({i \in 1..Len(content) : content[i] = piece})

(* line 190 with the operands exchanged *)
incomplete_tables_swapped(table_count, complete_tables) == complete_tables - table_count

(* line 190: table_count - complete_tables *)
incomplete_tables(table_count, complete_tables) == table_count - complete_tables

(* calculate_table_quality: [ret, errors] *)
calculate_table_quality(errors, content, format_info) ==
    LET has_tables == DictGet(format_info.has_tables, FALSE)
        table_indicators ==
            Count("<table>", content) + Count("|", content) + Count("\t", content)
        table_count == Count("<table>", content)
        complete_tables == Count("</table>", content)
    IN IF ~has_tables THEN [ret |-> R(100), errors |-> errors]
       ELSE IF table_indicators = 0
       THEN [ ret |-> R(20),
              errors |-> log_extraction_error(errors, "table_parsing", "high",
                  "Tableaux detectes mais non extraits correctement",
                  None, None, None,
                  Some("Le document contient des tableaux complexes necessitant un traitement specialise")) ]
       ELSE IF Count("<table>", content) > 0 /\ table_count # complete_tables
       THEN [ ret |-> R(60),
              errors |-> log_extraction_error(errors, "table_parsing", "medium",
                  "Tableaux HTML incomplets detectes",
                  Some([incomplete_tables |->
                            incomplete_tables(table_count, complete_tables)]),
                  None, None, None) ]
       ELSE [ret |-> R(85), errors |-> errors]

----------------------------------------------------------------------------
(* Metrics aggregator *)

(* len(content.split()): the maximal runs of characters that are not white space *)
WordCount(content) ==
    Cardinality({i \in 1..Len(content) :
                    ~IsSpace(content[i]) /\ (i = 1 \/ IsSpace(content[i - 1]))})

(* _estimate_page_count *)
estimate_page_count(content, formatted_content) ==
    IF Count("pdf-page", formatted_content) > 0
    THEN Count("pdf-page", formatted_content)
    ELSE IF content # <<>> THEN Max2(1, WordCount(content) \div 500)
    ELSE 1

(* Python truth value of format_info.get(key): absent, False or True *)
TruthyFlag(field) == DictGet(field, FALSE)

(* lines 211-213 with the flag of format_info alone deciding the number of *)
(* images detected: one if it is set, none otherwise                       *)
images_detected_flag_only(images, format_info) ==
    IF TruthyFlag(format_info.has_images) THEN 1 ELSE 0

(* lines 211-213: the number of images taken as detected *)
images_detected(images, format_info) ==
    IF TruthyFlag(format_info.has_images) THEN Max2(Len(images), 1) ELSE Len(images)

(* line 216: len([img for img in images if img.get('data')]) *)
images_extracted(images) ==
    Cardinality({i \in 1..Len(images) : image_has_data(images[i])})

(* line 222: any(indicator in formatted_content for indicator in ...) *)
has_table_indicator(formatted_content) ==
    \E indicator \in {"<table>", "|", "\t"} : Count(indicator, formatted_content) > 0

(* update_extraction_metrics: the metrics after the call *)
update_extraction_metrics(metrics, result) ==
    LET content == result.content
        formatted_content == result.formatted_content
        images == result.images
        format_info == result.format_info
        total_images_detected == images_detected(images, format_info)
        has_tables == TruthyFlag(format_info.has_tables)
        detected ==
            metrics.total_elements_detected + 1 + total_images_detected
                + (IF has_tables THEN 1 ELSE 0)
        extracted ==
            metrics.total_elements_extracted
                + (IF content # <<>> THEN 1 ELSE 0)
                + images_extracted(images)
                + (IF has_tables /\ has_table_indicator(formatted_content)
                   THEN 1 ELSE 0)
        text == calculate_text_quality(metrics.errors, content, None)
        image == calculate_image_quality(text.errors, images,
                                         Some(total_images_detected))
        table == calculate_table_quality(image.errors, formatted_content, format_info)
    IN [ total_elements_detected  |-> detected,
         total_elements_extracted |-> extracted,
         text_quality             |-> text.ret,
         image_quality            |-> image.ret,
         table_quality            |-> table.ret,
         errors                   |-> table.errors ]

(* lines 309-312 with 0 for the precision when nothing was detected *)
precision_of_zero_default(metrics) ==
    IF metrics.total_elements_detected > 0
    THEN <<metrics.total_elements_extracted * 100, metrics.total_elements_detected>>
    ELSE R(0)

(* lines 309-312: the global precision *)
precision_of(metrics) ==
    IF metrics.total_elements_detected > 0
    THEN <<metrics.total_elements_extracted * 100, metrics.total_elements_detected>>
    ELSE R(100)

(* lines 315-320: the fields save_extraction_metrics writes to the document *)
document_with_metrics(doc, metrics) ==
    [doc EXCEPT
        !.extraction_precision     = Some(Round2(precision_of(metrics))),
        !.total_elements_detected  = Some(metrics.total_elements_detected),
        !.total_elements_extracted = Some(metrics.total_elements_extracted),
        !.text_extraction_quality  = Some(Round2(metrics.text_quality)),
        !.image_extraction_quality = Some(Round2(metrics.image_quality)),
        !.table_extraction_quality = Some(Round2(metrics.table_quality))]

(* save_extraction_errors: the store after the call.  The records are       *)
(* handed to DocumentExtractionError.objects.create one by one; the create  *)
(* of record fail_at raises (0: none does), which leaves the loop for the   *)
(* except clause of line 300.                                               *)
save_extraction_errors(store, errors, fail_at) ==
    LET handed == IF fail_at = 0 THEN errors ELSE SubSeq(errors, 1, fail_at)
        created == IF fail_at = 0 THEN errors ELSE SubSeq(errors, 1, fail_at - 1)
    IN [store EXCEPT !.create_calls = @ \o handed, !.errors = @ \o created]

----------------------------------------------------------------------------
(* Inline extractors *)

(* the piece of markup a character of a text file becomes in the <pre>     *)
(* block: line 445 turns a line feed into "<br>\n"                         *)
text_piece(c) ==
    IF c = 10 THEN "<br>" ELSE IF c = 124 THEN "|" ELSE IF c = 9 THEN "\t" ELSE "td"

(* _process_text_file, for a file that was read: the result record *)
process_text_file(file_text) ==
    [ content           |-> file_text,
      formatted_content |-> <<"<div class=\"text-document\"><pre>">>
                                \o [i \in 1..Len(file_text) |-> text_piece(file_text[i])]
                                \o <<"</pre></div>">>,
      images            |-> <<>>,
      format_info       |-> [has_tables |-> Some(FALSE), has_images |-> Some(FALSE)] ]

(* _process_html_file, for a file that was read and parsed: the text is    *)
(* that of the file's text pieces (one letter each), the flags tell        *)
(* whether a table or an image tag was found                               *)
process_html_file(file_pieces) ==
    [ content           |-> [i \in 1..Count("td", file_pieces) |-> 97],
      formatted_content |-> file_pieces,
      images            |-> <<>>,
      format_info       |-> [has_tables |-> Some(Count("<table>", file_pieces) > 0),
                             has_images |-> Some(Count("<img>", file_pieces) > 0)] ]

(* Python truth value of format_info: a dict without keys is false *)
TruthyFormatInfo(format_info) ==
    format_info.has_tables # <<>> \/ format_info.has_images # <<>>

----------------------------------------------------------------------------
(* Initial state of a processor: DocumentProcessor.__init__ *)

InitMetrics ==
    [ total_elements_detected  |-> 0,
      total_elements_extracted |-> 0,
      text_quality             |-> R(0),
      image_quality            |-> R(0),
      table_quality            |-> R(0),
      errors                   |-> <<>> ]

(* the document handed to the constructor: uploaded, not yet processed *)
InitDocument ==
    [ status                   |-> "pending",
      error_message            |-> None,
      extracted_content        |-> None,
      formatted_content        |-> None,
      extraction_precision     |-> None,
      total_elements_detected  |-> None,
      total_elements_extracted |-> None,
      text_extraction_quality  |-> None,
      image_extraction_quality |-> None,
      table_extraction_quality |-> None ]

(* the persistence collaborator: the document row as last saved, the       *)
(* diagnostic, format and image rows created, and the records handed to    *)
(* DocumentExtractionError.objects.create, created or not                  *)
InitDb ==
    [ document     |-> InitDocument,
      errors       |-> <<>>,
      create_calls |-> <<>>,
      formats      |-> <<>>,
      images       |-> <<>> ]

InitProcessor ==
    /\ extraction_metrics = InitMetrics
    /\ current_page_number = None
    /\ current_page_count = None
    /\ document = InitDocument
    /\ db = InitDb
    /\ ret = None

Errors == extraction_metrics.errors

----------------------------------------------------------------------------
(* SpecText: calculate_text_quality on every text up to MaxLen characters, *)
(* then on the same text with some characters replaced by a marker.        *)

(* line feed, space, 'a', '?', and U+1F600 (beyond the BMP) *)
TextChars == {10, 32, 97, 63, 128512}

RECURSIVE SeqsUpTo(_, _)
SeqsUpTo(S, n) ==
    IF n = 0 THEN {<<>>}
    ELSE LET shorter == SeqsUpTo(S, n - 1)
         IN shorter \cup {Append(s, x) : s \in {t \in shorter : Len(t) = n - 1}, x \in S}

(* the short texts, and each of them followed by PadLen letters, so that   *)
(* low corruption ratios (10% and less) occur                              *)
ShortTexts == SeqsUpTo(TextChars, MaxLen)
Padding == [i \in 1..PadLen |-> 97]
Texts == ShortTexts \cup {t \o Padding : t \in ShortTexts}
ExpectedLengths ==
    {None} \cup {Some(e) : e \in 0..MaxExp} \cup {Some(PadLen + e) : e \in 0..MaxExp}

InitText ==
    /\ InitProcessor
    /\ pc = "ready"
    /\ args \in [text : Texts, expected_length : ExpectedLengths,
                 first_text : {None}, first_ret : {None}]

(* one call of calculate_text_quality(text, expected_length) *)
ScoreText ==
    /\ pc = "ready"
    /\ LET r == calculate_text_quality(Errors, args.text, args.expected_length)
       IN /\ ret' = Some(r.ret)
          /\ extraction_metrics' = [extraction_metrics EXCEPT !.errors = r.errors]
    /\ pc' = "scored"
    /\ UNCHANGED <<current_page_number, current_page_count, document, db, args>>

(* a second call, on the text with the characters at the positions in S    *)
(* (among the first MaxLen, none of them counted as corrupted) replaced by *)
(* the marker m; the first text and its score are kept in args             *)
RescoreCorrupted ==
    /\ pc = "scored"
    /\ \E S \in SUBSET {i \in 1..Min2(MaxLen, Len(args.text)) :
                            ~IsCorrupted(args.text[i])},
          m \in MarkerChars :
        /\ S # {}
        /\ LET text2 == [i \in 1..Len(args.text) |->
                            IF i \in S THEN m ELSE args.text[i]]
               r == calculate_text_quality(Errors, text2, args.expected_length)
           IN /\ args' = [args EXCEPT !.text = text2,
                                      !.first_text = Some(args.text),
                                      !.first_ret = ret]
              /\ ret' = Some(r.ret)
              /\ extraction_metrics' = [extraction_metrics EXCEPT !.errors = r.errors]
    /\ pc' = "rescored"
    /\ UNCHANGED <<current_page_number, current_page_count, document, db>>

NextText == ScoreText \/ RescoreCorrupted

SpecText == InitText /\ [][NextText]_vars

(* C1: calculate_text_quality returns a score in [0,100] for every text and *)
(* expected length; for the empty text the score is exactly 0 and the error *)
(* list of the run is left as it was (empty, on a fresh processor).         *)
C1_TextQualityRange ==
    pc \in {"scored", "rescored"} =>
        /\ RLeq(R(0), Val(ret)) /\ RLeq(Val(ret), R(100))
        /\ (args.text = <<>> => Val(ret) = R(0) /\ Errors = <<>>)

(* the text "?\n\n" takes all three penalties: 100 - 100/3 - 20 - 15 *)
C1_Witness ==
    /\ pc = "scored"
    /\ args.text = <<63, 10, 10>>
    /\ args.expected_length = Some(1)
    /\ REq(Val(ret), <<95, 3>>)
    /\ Len(Errors) = 3

(* the positions at which the rescored text differs from the first text *)
ReplacedPositions ==
    {i \in 1..Len(args.text) : args.text[i] # Val(args.first_text)[i]}

(* C2 as stated: replacing characters by corruption markers, the length     *)
(* unchanged, never raises the score.                                       *)
C2_CorruptionMonotone ==
    pc = "rescored" => RLeq(Val(ret), Val(args.first_ret))

(* C2 amended: replacing characters that are not white space (neither line  *)
(* breaks nor characters strip() removes) by corruption markers, the length *)
(* and the expected length unchanged, never raises the score.               *)
C2_CorruptionMonotoneNonSpace ==
    (/\ pc = "rescored"
     /\ \A i \in ReplacedPositions : ~IsSpace(Val(args.first_text)[i]))
    => RLeq(Val(ret), Val(args.first_ret))

(* two letters of "aa?" replaced by markers: the score falls from 200/3 to 50 *)
C2_Witness ==
    /\ pc = "rescored"
    /\ args.first_text = Some(<<97, 97, 63>>)
    /\ args.text = <<65533, 65533, 63>>
    /\ REq(Val(args.first_ret), <<200, 3>>)
    /\ REq(Val(ret), R(50))

----------------------------------------------------------------------------
(* SpecImage: calculate_image_quality on every sequence of up to MaxImages *)
(* candidates.                                                             *)

MaxImages == 3
MaxTotal == 1

(* width and height of a candidate: both keys absent; width None (as       *)
(* extract_images_from_html leaves it for a tag without the attribute);    *)
(* a width below 50; a height None behind a width of 60; 60 by 60          *)
ImageSizes ==
    { <<None, None>>,
      <<Some(None), Some(Some(60))>>,
      <<Some(Some(49)), Some(Some(60))>>,
      <<Some(Some(60)), Some(None)>>,
      <<Some(Some(60)), Some(Some(60))>> }

(* data: key absent, None, empty bytes, one byte *)
ImageDatas == {None, Some(None), Some(Some(<<>>)), Some(Some(<<1>>))}

ImageCandidates ==
    {[data |-> d, width |-> wh[1], height |-> wh[2]] : d \in ImageDatas, wh \in ImageSizes}

TotalsDetected == {None} \cup {Some(t) : t \in 0..MaxTotal}

InitImage ==
    /\ InitProcessor
    /\ pc = "ready"
    /\ args \in [images : SeqsUpTo(ImageCandidates, MaxImages),
                 total_images_detected : TotalsDetected]
    \* the count is read only when there is no image
    /\ args.images # <<>> =>
           args.total_images_detected \in {None, Some(Len(args.images))}

(* one call of calculate_image_quality(images, total_images_detected) *)
ScoreImages ==
    /\ pc = "ready"
    /\ LET r == calculate_image_quality(Errors, args.images, args.total_images_detected)
       IN /\ ret' = Some(r.ret)
          /\ extraction_metrics' = [extraction_metrics EXCEPT !.errors = r.errors]
    /\ pc' = "scored"
    /\ UNCHANGED <<current_page_number, current_page_count, document, db, args>>

NextImage == ScoreImages

SpecImage == InitImage /\ [][NextImage]_vars

(* the candidates that carry non-empty data *)
WithData == {i \in 1..Len(args.images) :
                /\ args.images[i].data # <<>>
                /\ args.images[i].data[1] # <<>>
                /\ args.images[i].data[1][1] # <<>>}

ErrorsLike(error_type, severity) ==
    {k \in 1..Len(Errors) :
        Errors[k].error_type = error_type /\ Errors[k].severity = severity}

(* C3: for a non-empty sequence of candidates calculate_image_quality       *)
(* returns (candidates with non-empty data) / (candidates) x 100 and logs   *)
(* as many medium image_extraction diagnostics as candidates have no data.  *)
C3_ImageQualityRatio ==
    (pc = "scored" /\ args.images # <<>>) =>
        /\ REq(Val(ret), <<100 * Cardinality(WithData), Len(args.images)>>)
        /\ Cardinality(ErrorsLike("image_extraction", "medium"))
               = Len(args.images) - Cardinality(WithData)

(* three candidates, two with data: 200/3 and one medium diagnostic *)
C3_Witness ==
    /\ pc = "scored"
    /\ Len(args.images) = 3
    /\ WithData = {1, 3}
    /\ Val(ret) = <<200, 3>>
    /\ Round2(Val(ret)) = 6667
    /\ Cardinality(ErrorsLike("image_extraction", "medium")) = 1

(* C4: for an empty sequence calculate_image_quality returns 100 and logs   *)
(* nothing when total_images_detected is absent or 0, and returns 0 and     *)
(* logs exactly one high image_extraction diagnostic when it is positive.   *)
C4_NoImages ==
    (pc = "scored" /\ args.images = <<>>) =>
        IF args.total_images_detected = None \/ args.total_images_detected = Some(0)
        THEN Val(ret) = R(100) /\ Errors = <<>>
        ELSE /\ Val(ret) = R(0)
             /\ Len(Errors) = 1
             /\ Errors[1].error_type = "image_extraction"
             /\ Errors[1].severity = "high"

C4_Witness ==
    /\ pc = "scored"
    /\ args.images = <<>>
    /\ args.total_images_detected = Some(0)
    /\ Val(ret) = R(100)
    /\ Errors = <<>>

----------------------------------------------------------------------------
(* SpecTable: calculate_table_quality on every markup text of up to        *)
(* MaxPieces pieces and every format_info.                                 *)

MaxPieces == 5

MarkupPieces == {"<table>", "</table>", "|", "\t", "td"}

(* has_tables: key absent, False, True *)
FormatInfos == [has_tables : {None, Some(FALSE), Some(TRUE)}, has_images : {None}]

InitTable ==
    /\ InitProcessor
    /\ pc = "ready"
    /\ args \in [content : SeqsUpTo(MarkupPieces, MaxPieces), format_info : FormatInfos]

(* one call of calculate_table_quality(content, format_info) *)
ScoreTables ==
    /\ pc = "ready"
    /\ LET r == calculate_table_quality(Errors, args.content, args.format_info)
       IN /\ ret' = Some(r.ret)
          /\ extraction_metrics' = [extraction_metrics EXCEPT !.errors = r.errors]
    /\ pc' = "scored"
    /\ UNCHANGED <<current_page_number, current_page_count, document, db, args>>

NextTable == ScoreTables

SpecTable == InitTable /\ [][NextTable]_vars

Opened == Count("<table>", args.content)
Closed == Count("</table>", args.content)
Indicators == {i \in 1..Len(args.content) : args.content[i] \in {"<table>", "|", "\t"}}

(* C5: the decision table of calculate_table_quality.  has_tables false:    *)
(* 100 and no diagnostic; has_tables true and no indicator: 20 and one high *)
(* table_parsing diagnostic; table-open markup present and open # close: 60 *)
(* and one medium diagnostic reporting open - close; otherwise 85 and no    *)
(* diagnostic.                                                              *)
C5_TableDecision ==
    pc = "scored" =>
        IF args.format_info.has_tables # Some(TRUE)
        THEN Val(ret) = R(100) /\ Errors = <<>>
        ELSE IF Indicators = {}
        THEN /\ Val(ret) = R(20)
             /\ Len(Errors) = 1
             /\ Errors[1].error_type = "table_parsing"
             /\ Errors[1].severity = "high"
        ELSE IF Opened > 0 /\ Opened # Closed
        THEN /\ Val(ret) = R(60)
             /\ Len(Errors) = 1
             /\ Errors[1].error_type = "table_parsing"
             /\ Errors[1].severity = "medium"
             /\ Errors[1].details = Some([incomplete_tables |-> Opened - Closed])
        ELSE Val(ret) = R(85) /\ Errors = <<>>

(* three open tags and two close tags: 60 and an imbalance of 1 *)
C5_Witness ==
    /\ pc = "scored"
    /\ args.format_info.has_tables = Some(TRUE)
    /\ Opened = 3 /\ Closed = 2
    /\ Val(ret) = R(60)
    /\ Errors[1].details = Some([incomplete_tables |-> 1])

----------------------------------------------------------------------------
(* SpecLog: one call of log_extraction_error on a fresh processor, for     *)
(* every error type, severity and combination of optional arguments.       *)

KnownErrorTypes ==
    {"encoding", "image_extraction", "table_parsing", "text_ocr",
     "layout_analysis", "font_detection"}

ErrorTypes == KnownErrorTypes \cup {"other", "unknown_kind"}
Severities == {"low", "medium", "high"}

InitLog ==
    /\ InitProcessor
    /\ pc = "ready"
    /\ args \in [error_type : ErrorTypes,
                 severity : Severities,
                 message : {"message"},
                 details : {None, Some([image_index |-> 0])},
                 page_number : {None, Some(3)},
                 element_type : {None, Some("image")},
                 suggested_fix : {None, Some(""), Some("Verifier le fichier")}]

(* one call of log_extraction_error *)
LogError ==
    /\ pc = "ready"
    /\ extraction_metrics' =
           [extraction_metrics EXCEPT !.errors =
               log_extraction_error(Errors, args.error_type, args.severity,
                   args.message, args.details, args.page_number,
                   args.element_type, args.suggested_fix)]
    /\ pc' = "logged"
    /\ UNCHANGED <<current_page_number, current_page_count, document, db, args, ret>>

NextLog == LogError

SpecLog == InitLog /\ [][NextLog]_vars

GenericCorrections ==
    << "Retraiter le document avec des parametres optimises",
       "Utiliser un processeur alternatif",
       "Verifier l'integrite du fichier source" >>

(* the remediation list the claim refers to: that of the type, or the       *)
(* generic one for a type outside the six known categories                  *)
RemediationList(error_type) ==
    IF error_type \in KnownErrorTypes
    THEN apply_automatic_corrections(error_type)
    ELSE GenericCorrections

(* C7: a call of log_extraction_error without a suggested fix stores the    *)
(* first two entries of the remediation list of the error type joined by    *)
(* "; "; a fix given explicitly is stored unchanged.                        *)
C7_SuggestedFix ==
    pc = "logged" =>
        /\ Len(Errors) = 1
        /\ Len(RemediationList(args.error_type)) = 3
        /\ Errors[1].suggested_fix =
              IF args.suggested_fix = None
              THEN RemediationList(args.error_type)[1] \o "; "
                       \o RemediationList(args.error_type)[2]
              ELSE args.suggested_fix[1]

C7_Witness ==
    /\ pc = "logged"
    /\ args.error_type = "encoding"
    /\ args.suggested_fix = None
    /\ Errors[1].suggested_fix =
           "Re-encoder le document avec UTF-8; Utiliser un OCR avec detection automatique d'encodage"

----------------------------------------------------------------------------
(* SpecMetrics: up to MaxUpdates calls of update_extraction_metrics on a   *)
(* fresh processor, then save_extraction_metrics.                          *)

MaxUpdates == 2

ImageWithData == [data |-> Some(Some(<<1>>)), width |-> Some(Some(60)), height |-> Some(Some(60))]
ImageWithoutData == [data |-> Some(None), width |-> None, height |-> None]

MetricResults ==
    [ content           : {<<>>, <<97>>},
      formatted_content : {<<>>, <<"|">>},
      images            : {<<>>,
                           <<ImageWithData, ImageWithData, ImageWithoutData>>,
                           <<ImageWithData, ImageWithoutData, ImageWithoutData>>},
      format_info       : {[has_tables |-> Some(FALSE), has_images |-> Some(FALSE)],
                           [has_tables |-> Some(TRUE), has_images |-> Some(TRUE)]} ]

InitMetricsRun ==
    /\ InitProcessor
    /\ pc = "idle"
    /\ args = [calls |-> 0]

(* one call of update_extraction_metrics(result) *)
UpdateMetrics ==
    /\ pc = "idle"
    /\ args.calls < MaxUpdates
    /\ \E result \in MetricResults :
        /\ extraction_metrics' = update_extraction_metrics(extraction_metrics, result)
        /\ current_page_count' =
               Some(estimate_page_count(result.content, result.formatted_content))
    /\ args' = [args EXCEPT !.calls = @ + 1]
    /\ UNCHANGED <<current_page_number, document, db, pc, ret>>

(* save_extraction_metrics without the try block of lines 305-328: the      *)
(* exception of document.save() or of a diagnostic creation leaves the      *)
(* method for the caller's except clause                                    *)
save_extraction_metrics_reraising(here, next) ==
    /\ pc = here
    /\ document' = document_with_metrics(document, extraction_metrics)
    /\ \E save_ok \in BOOLEAN, fail_at \in 0..Len(Errors) :
        IF save_ok
        THEN /\ db' = save_extraction_errors([db EXCEPT !.document = document'],
                                             Errors, fail_at)
             /\ pc' = IF fail_at = 0 THEN next ELSE "except"
        ELSE fail_at = 0 /\ db' = db /\ pc' = "except"
    /\ UNCHANGED <<extraction_metrics, current_page_number, current_page_count>>

(* save_extraction_metrics, from position here on to position next:         *)
(* the fields are written to the document; document.save() raises or        *)
(* not; if it does not, the diagnostics are flushed                         *)
save_extraction_metrics(here, next) ==
    /\ pc = here
    /\ document' = document_with_metrics(document, extraction_metrics)
    /\ \E save_ok \in BOOLEAN, fail_at \in 0..Len(Errors) :
        IF save_ok
        THEN db' = save_extraction_errors([db EXCEPT !.document = document'],
                                          Errors, fail_at)
        ELSE fail_at = 0 /\ db' = db
    /\ pc' = next
    /\ UNCHANGED <<extraction_metrics, current_page_number, current_page_count>>

SaveMetrics ==
    /\ save_extraction_metrics("idle", "saved")
    /\ UNCHANGED <<args, ret>>

NextMetrics == UpdateMetrics \/ SaveMetrics

SpecMetrics == InitMetricsRun /\ [][NextMetrics]_vars

Detected == extraction_metrics.total_elements_detected
Extracted == extraction_metrics.total_elements_extracted

(* C6 as stated: the precision written to the document is exactly           *)
(* extracted / detected x 100 when detected > 0, and 100 when detected = 0  *)
(* (the written value is in hundredths).                                    *)
C6_PrecisionExact ==
    pc = "saved" =>
        IF Detected > 0
        THEN Val(document.extraction_precision) * Detected = 100 * 100 * Extracted
        ELSE Val(document.extraction_precision) = 100 * 100

(* C6 amended: the precision written to the document is extracted /         *)
(* detected x 100 rounded to two decimals when detected > 0 (10 and 7 give  *)
(* 70.0), and 100 when detected = 0; it is not clamped.  In hundredths p,   *)
(* rounding to the nearest means |p x detected - 10000 x extracted| is at   *)
(* most detected / 2.                                                       *)
C6_PrecisionRounded ==
    pc = "saved" =>
        LET p == Val(document.extraction_precision)
        IN IF Detected > 0
           THEN 2 * Abs(p * Detected - 100 * 100 * Extracted) <= Detected
           ELSE p = 100 * 100

(* detected = 10 and extracted = 7: 70.00 *)
C6_Witness ==
    /\ pc = "saved"
    /\ Detected = 10 /\ Extracted = 7
    /\ document.extraction_precision = Some(7000)

----------------------------------------------------------------------------
(* Spec: one run of process_document.  The run stops at each call of a     *)
(* collaborator (the persistence store, an extractor), which returns or    *)
(* raises.  args holds the local variables of the run: the detected type,  *)
(* the extractors tried, the result, and the exception being handled.      *)

(* what detect_file_type tells apart: lines 345-369 *)
MimeTypes == {"pdf", "word", "text", "html", "other"}

(* the text files and the HTML files on disk *)
FileTexts == {<<>>, <<97>>, <<63, 10, 10>>}
FilePieces == {<<>>, <<"td">>, <<"<table>", "td">>, <<"<img>">>}

(* the results a PDF or Word extractor returns (the ExtractionResult of    *)
(* the specification, section 3)                                           *)
ExtractorResults ==
    [ content           : {<<>>, <<97>>, <<63, 10, 10>>},
      formatted_content : {<<>>, <<"pdf-page", "<table>">>},
      images            : {<<>>, <<ImageWithData, ImageWithoutData>>},
      format_info       : {[has_tables |-> None, has_images |-> None],
                           [has_tables |-> Some(TRUE), has_images |-> Some(TRUE)]} ]

InitRun ==
    /\ InitProcessor
    /\ pc = "start"
    /\ args = [mime_type |-> None, tried |-> <<>>, result |-> None, exc |-> None]

Raise(message) ==
    /\ pc' = "except"
    /\ args' = [args EXCEPT !.exc = Some(message)]

(* lines 333-335: status = 'processing'; document.save() *)
Begin ==
    /\ pc = "start"
    /\ document' = [document EXCEPT !.status = "processing"]
    /\ \E save_ok \in BOOLEAN :
        IF save_ok
        THEN /\ db' = [db EXCEPT !.document = document']
             /\ pc' = "detect"
             /\ args' = args
        ELSE /\ db' = db
             /\ Raise("document.save")
    /\ UNCHANGED <<extraction_metrics, current_page_number, current_page_count, ret>>

(* lines 337-340: detect_file_type always returns a type *)
Detect ==
    /\ pc = "detect"
    /\ \E mime_type \in MimeTypes : args' = [args EXCEPT !.mime_type = Some(mime_type)]
    /\ pc' = "extract"
    /\ UNCHANGED <<extraction_metrics, current_page_number, current_page_count,
                   document, db, ret>>

(* lines 371-372: "if not result: raise ValueError", else go on *)
CheckResult(tried, result) ==
    IF result = None
    THEN /\ pc' = "except"
         /\ args' = [args EXCEPT !.tried = tried,
                                 !.exc = Some("Aucun resultat du processeur")]
    ELSE /\ pc' = "save_results"
         /\ args' = [args EXCEPT !.tried = tried, !.result = result]

(* the extractor tried last raised, out of process_document's try block *)
ExtractorRaises(tried) ==
    /\ pc' = "except"
    /\ args' = [args EXCEPT !.tried = tried, !.exc = Some("extractor")]

(* _process_text_file: reads the file (or raises) and returns its result *)
TextFile(tried) ==
    \/ ExtractorRaises(Append(tried, "text"))
    \/ \E file_text \in FileTexts :
           CheckResult(Append(tried, "text"), Some(process_text_file(file_text)))

(* lines 345-347: the PDF extractor returns a result or None, or raises *)
ExtractPdf ==
    /\ pc = "extract" /\ args.mime_type = Some("pdf")
    /\ \/ ExtractorRaises(<<"pdf">>)
       \/ CheckResult(<<"pdf">>, None)
       \/ \E result \in ExtractorResults : CheckResult(<<"pdf">>, Some(result))
    /\ UNCHANGED <<extraction_metrics, current_page_number, current_page_count,
                   document, db, ret>>

(* lines 349-357: the Word extractor, and the text extractor if it raises *)
ExtractWord ==
    /\ pc = "extract" /\ args.mime_type = Some("word")
    /\ \/ TextFile(<<"word">>)
       \/ CheckResult(<<"word">>, None)
       \/ \E result \in ExtractorResults : CheckResult(<<"word">>, Some(result))
    /\ UNCHANGED <<extraction_metrics, current_page_number, current_page_count,
                   document, db, ret>>

(* lines 359-361 and 367-369: a text file, or a type not supported *)
ExtractText ==
    /\ pc = "extract" /\ args.mime_type \in {Some("text"), Some("other")}
    /\ TextFile(<<>>)
    /\ UNCHANGED <<extraction_metrics, current_page_number, current_page_count,
                   document, db, ret>>

(* lines 363-365: _process_html_file, which falls back to the text         *)
(* extractor when reading or parsing raises                                *)
ExtractHtml ==
    /\ pc = "extract" /\ args.mime_type = Some("html")
    /\ \/ TextFile(<<"html">>)
       \/ \E file_pieces \in FilePieces :
              CheckResult(<<"html">>, Some(process_html_file(file_pieces)))
    /\ UNCHANGED <<extraction_metrics, current_page_number, current_page_count,
                   document, db, ret>>

(* lines 374-382: the results and status = 'completed' are written to the  *)
(* document; document.save() *)
SaveResults ==
    /\ pc = "save_results"
    /\ document' = [document EXCEPT
                       !.extracted_content = Some(Val(args.result).content),
                       !.formatted_content = Some(Val(args.result).formatted_content),
                       !.status = "completed"]
    /\ \E save_ok \in BOOLEAN :
        IF save_ok
        THEN /\ db' = [db EXCEPT !.document = document']
             /\ pc' = "format_info"
             /\ args' = args
        ELSE /\ db' = db
             /\ Raise("document.save")
    /\ UNCHANGED <<extraction_metrics, current_page_number, current_page_count, ret>>

(* lines 386-389 with _save_format_info lacking its try block: a failure  *)
(* reaches the except clause of process_document                          *)
SaveFormatInfoUncaught ==
    /\ pc = "format_info"
    /\ LET format_info == Val(args.result).format_info
       IN IF TruthyFormatInfo(format_info)
          THEN \E save_ok \in BOOLEAN :
                  IF save_ok
                  THEN /\ db' = [db EXCEPT !.formats = Append(@, format_info)]
                       /\ pc' = "images"
                       /\ args' = args
                  ELSE /\ db' = db
                       /\ Raise("DocumentFormat")
          ELSE db' = db /\ pc' = "images" /\ args' = args
    /\ UNCHANGED <<extraction_metrics, current_page_number, current_page_count,
                   document, ret>>

(* lines 386-389 and _save_format_info: a failure is caught and printed *)
SaveFormatInfo ==
    /\ pc = "format_info"
    /\ LET format_info == Val(args.result).format_info
       IN IF TruthyFormatInfo(format_info)
          THEN \E save_ok \in BOOLEAN :
                  db' = IF save_ok THEN [db EXCEPT !.formats = Append(@, format_info)]
                        ELSE db
          ELSE db' = db
    /\ pc' = "images"
    /\ UNCHANGED <<extraction_metrics, current_page_number, current_page_count,
                   document, args, ret>>

(* lines 391-395 and _save_images: image i is stored unless reading its    *)
(* data (a KeyError when the key is absent), save_image or the create      *)
(* raises (the images in failed), which is caught per image                *)
SaveImages ==
    /\ pc = "images"
    /\ LET images == Val(args.result).images
       IN \E failed \in SUBSET (1..Len(images)) :
            /\ \A i \in 1..Len(images) : images[i].data = <<>> => i \in failed
            /\ db' = [db EXCEPT !.images =
                         @ \o SelectSeq([i \in 1..Len(images) |-> i],
                                        LAMBDA i : i \notin failed)]
    /\ pc' = "update_metrics"
    /\ UNCHANGED <<extraction_metrics, current_page_number, current_page_count,
                   document, args, ret>>

(* line 398: update_extraction_metrics(result) *)
UpdateRunMetrics ==
    /\ pc = "update_metrics"
    /\ extraction_metrics' =
           update_extraction_metrics(extraction_metrics, Val(args.result))
    /\ current_page_count' =
           Some(estimate_page_count(Val(args.result).content,
                                    Val(args.result).formatted_content))
    /\ pc' = "save_metrics"
    /\ UNCHANGED <<current_page_number, document, db, args, ret>>

(* lines 399-404: save_extraction_metrics(), then return True *)
SaveRunMetrics ==
    /\ save_extraction_metrics("save_metrics", "done")
    /\ ret' = Some(TRUE)
    /\ UNCHANGED args

(* lines 406-413 without line 410: the message is written, the status is  *)
(* left as it was                                                          *)
HandleExceptionStatusKept ==
    /\ pc = "except"
    /\ document' = [document EXCEPT
                       !.error_message =
                           Some("Erreur lors du traitement: " \o Val(args.exc))]
    /\ \E save_ok \in BOOLEAN :
        IF save_ok
        THEN /\ db' = [db EXCEPT !.document = document']
             /\ pc' = "done"
             /\ ret' = Some(FALSE)
        ELSE /\ db' = db
             /\ pc' = "raised"
             /\ ret' = ret
    /\ UNCHANGED <<extraction_metrics, current_page_number, current_page_count, args>>

(* lines 406-413: status = 'error' and the message are written;            *)
(* document.save(), whose exception leaves process_document                *)
HandleException ==
    /\ pc = "except"
    /\ document' = [document EXCEPT
                       !.status = "error",
                       !.error_message =
                           Some("Erreur lors du traitement: " \o Val(args.exc))]
    /\ \E save_ok \in BOOLEAN :
        IF save_ok
        THEN /\ db' = [db EXCEPT !.document = document']
             /\ pc' = "done"
             /\ ret' = Some(FALSE)
        ELSE /\ db' = db
             /\ pc' = "raised"
             /\ ret' = ret
    /\ UNCHANGED <<extraction_metrics, current_page_number, current_page_count, args>>

Next ==
    \/ Begin
    \/ Detect
    \/ ExtractPdf
    \/ ExtractWord
    \/ ExtractText
    \/ ExtractHtml
    \/ SaveResults
    \/ SaveFormatInfo
    \/ SaveImages
    \/ UpdateRunMetrics
    \/ SaveRunMetrics
    \/ HandleException

Spec == InitRun /\ [][Next]_vars

StatusSteps ==
    { <<"pending", "processing">>, <<"processing", "completed">>,
      <<"processing", "error">>, <<"completed", "error">> }

ScoresAttached(doc) ==
    /\ doc.extraction_precision # None
    /\ doc.text_extraction_quality # None
    /\ doc.image_extraction_quality # None
    /\ doc.table_extraction_quality # None

(* C9: whenever the document is saved with status completed, the precision  *)
(* and the three quality scores of the run are attached to the document.    *)
C9_CompletedHasScores ==
    db.document.status = "completed" => ScoresAttached(document)

(* C10: when the creation of a diagnostic record fails during the flush,    *)
(* the records after it are still handed to the persistence collaborator,   *)
(* in insertion order; so after a flush every record has been handed over.  *)
C10_FlushContinues ==
    (/\ pc = "done"
     /\ ret = Some(TRUE)
     /\ ScoresAttached(db.document))
    => db.create_calls = Errors

(* the step of save_extraction_metrics in which the persistence collaborator *)
(* failed: document.save() raised (the document was not stored), or the      *)
(* creation of a diagnostic did (fewer records stored than logged)           *)
MetricsSaveFailed ==
    /\ pc = "save_metrics"
    /\ \/ db'.document # document'
       \/ Len(db'.errors) < Len(db.errors) + Len(Errors)

(* C11: a failure of the persistence collaborator while the metrics are     *)
(* saved (document.save() or the creation of a diagnostic) is not raised    *)
(* again: the in-memory extraction_metrics (counters, three scores, error   *)
(* list) are unchanged by the failure, process_document returns True and    *)
(* the status of the document stays completed.                              *)
C11_MetricsSaveFailureContained ==
    [][MetricsSaveFailed =>
          /\ extraction_metrics' = extraction_metrics
          /\ pc' = "done"
          /\ ret' = Some(TRUE)
          /\ document'.status = "completed"
          /\ db'.document.status = "completed"]_vars

(* a run that returned True after the creation of a diagnostic failed: the  *)
(* scores were stored, not every diagnostic was, and the metrics in memory  *)
(* hold the diagnostics and the counters of the run                         *)
C11_Witness ==
    /\ pc = "done"
    /\ ret = Some(TRUE)
    /\ ScoresAttached(db.document)
    /\ Len(db.errors) < Len(Errors)
    /\ Detected > 0
    /\ document.status = "completed"

(* the primary extractor of the detected type raised *)
PrimaryFailed ==
    /\ args.tried # <<>>
    /\ args.tried[1] \in {"pdf", "word", "html"}
    /\ args.result = None
    /\ args.exc = Some("extractor")

(* C12: a run has status error only when no extractor, the fallbacks        *)
(* included, returned a result: when the primary extractor (PDF, Word,      *)
(* HTML) failed, the plain-text extractor was tried before the run was      *)
(* marked failed, and a run in which an extractor returned a result does    *)
(* not end in status error.                                                 *)
C12_ErrorOnlyWithoutResult ==
    document.status = "error" =>
        /\ args.result = None
        /\ (PrimaryFailed => args.tried[Len(args.tried)] = "text")

----------------------------------------------------------------------------
(* Image optimizer (image_processor.py)                                    *)
(*                                                                          *)
(* The bytes of an image file are modelled by what they decode to: the     *)
(* container format ("none" for bytes that are no image), the image        *)
(* (mode, width, height, whether its pixel data is cut short and whether   *)
(* its pixels went through the sharpening), and the JPEG quality the       *)
(* encoder was given.  A file name is the sequence of its pieces, so   *)
(* that str.replace acts on the pieces equal to ".png".                    *)

(* ImageProcessor.__init__ *)
max_width == 2400
max_height == 2400
quality == 92

(* line 61 *)
min_size == 300

(* Python floats are IEEE 754 doubles: 53 significant bits, results        *)
(* rounded to the nearest, ties to the even.  A positive float is the      *)
(* record [bits, frac]: the significant bits, most significant first, and  *)
(* the number of them that stand after the binary point.                   *)
Precision == 53

RECURSIVE BitsOf(_)
(* the binary digits of a natural number, most significant first *)
BitsOf(n) == IF n = 0 THEN <<>> ELSE BitsOf(n \div 2) \o <<n % 2>>

RECURSIVE ValueOf(_)
ValueOf(bits) ==
    IF bits = <<>> THEN 0
    ELSE 2 * ValueOf(SubSeq(bits, 1, Len(bits) - 1)) + bits[Len(bits)]

(* the number n < 2^width in exactly width binary digits *)
FixedBits(n, width) == [i \in 1..width |-> (n \div 2^(width - i)) % 2]

RECURSIVE FracBits(_, _, _)
(* the first k binary digits of r / m after the point (r < m), and the     *)
(* remainder left: long division, ten digits at a time                     *)
FracBits(r, m, k) ==
    IF k = 0 THEN [bits |-> <<>>, rem |-> r]
    ELSE LET c == Min2(k, 10)
             rest == FracBits((r * 2^c) % m, m, k - c)
         IN [bits |-> FixedBits((r * 2^c) \div m, c) \o rest.bits, rem |-> rest.rem]

(* bits + 1: the last 0 becomes 1 and the 1s after it 0 *)
Incr(bits) ==
    LET zeros == {i \in 1..Len(bits) : bits[i] = 0}
    IN IF zeros = {} THEN <<1>> \o [i \in 1..Len(bits) |-> 0]
       ELSE LET j == CHOOSE i \in zeros : \A k \in zeros : k <= i
            IN [i \in 1..Len(bits) |-> IF i < j THEN bits[i] ELSE IF i = j THEN 1 ELSE 0]

RECURSIVE MulBits(_, _, _)
(* bits x w + carry, for a small natural number w: long multiplication,    *)
(* ten digits at a time                                                     *)
MulBits(bits, w, carry) ==
    IF bits = <<>> THEN BitsOf(carry)
    ELSE LET c == Min2(Len(bits), 10)
             v == ValueOf(SubSeq(bits, Len(bits) - c + 1, Len(bits))) * w + carry
         IN MulBits(SubSeq(bits, 1, Len(bits) - c), w, v \div 2^c)
                \o FixedBits(v % 2^c, c)

(* a / m as a float, for integers a >= m > 0: the quotient rounded to 53   *)
(* significant bits                                                         *)
FloatDiv(a, m) ==
    LET int_bits == BitsOf(a \div m)
        k == Precision - Len(int_bits)
        frac == FracBits(a % m, m, k)
        raw == int_bits \o frac.bits
        up == 2 * frac.rem > m \/ (2 * frac.rem = m /\ raw[Precision] = 1)
    IN [bits |-> IF up THEN Incr(raw) ELSE raw, frac |-> k]

(* w * x for an integer w > 0 and a float x: the product rounded to 53     *)
(* significant bits                                                         *)
FloatMulInt(w, x) ==
    LET product == MulBits(x.bits, w, 0)
        drop == Len(product) - Precision
        kept == SubSeq(product, 1, Precision)
        up == /\ product[Precision + 1] = 1
              /\ \/ kept[Precision] = 1
                 \/ \E i \in (Precision + 2)..Len(product) : product[i] = 1
    IN IF drop <= 0 THEN [bits |-> product, frac |-> x.frac]
       ELSE [bits |-> IF up THEN Incr(kept) ELSE kept, frac |-> x.frac - drop]

(* int(x) of a positive float below 2^31: the digits before the point *)
IntOf(x) == ValueOf(SubSeq(x.bits, 1, Len(x.bits) - x.frac))

(* lines 64-66: the size int(width * scale_factor), int(height *           *)
(* scale_factor) with scale_factor = min_size / min(width, height)         *)
upscaled_size(width, height) ==
    LET scale_factor == FloatDiv(min_size, Min2(width, height))
    IN [width  |-> IntOf(FloatMulInt(width, scale_factor)),
        height |-> IntOf(FloatMulInt(height, scale_factor))]

(* lines 60-67: small images are scaled up *)
upscale(image) ==
    IF image.width < min_size /\ image.height < min_size
    THEN LET size == upscaled_size(image.width, image.height)
         IN [image EXCEPT !.width = size.width, !.height = size.height]
    ELSE image

(* Image.thumbnail of PIL keeps the aspect ratio of the image as closely   *)
(* as whole numbers allow: round_aspect takes, of the floor and the ceiling *)
(* of the exact new dimension, the one whose key, the distance between the  *)
(* aspect ratio it gives and that of the image, is smaller (min() keeps the *)
(* floor when the keys are equal), and at least 1.  PIL computes the keys   *)
(* in floats; the exact values used here order the two candidates in the    *)
(* same way unless they are equally close.                                  *)

(* the key of a candidate width n (the height is y), times h * y *)
width_dist(w, h, y, n) == Abs(w * y - n * h)

(* the key of a candidate height n (the width is x), times h, as the        *)
(* fraction height_dist / height_scale; the key of 0 is 0                   *)
height_dist(w, h, x, n) == IF n = 0 THEN 0 ELSE Abs(w * n - x * h)
height_scale(n) == IF n = 0 THEN 1 ELSE n

(* x = round_aspect(y * aspect, key=lambda n: abs(aspect - n / y)) *)
round_aspect_width(w, h, y) ==
    LET lo == (y * w) \div h
        hi == IF (y * w) % h = 0 THEN lo ELSE lo + 1
    IN Max2(IF width_dist(w, h, y, lo) <= width_dist(w, h, y, hi) THEN lo ELSE hi, 1)

(* y = round_aspect(x / aspect, key=lambda n: 0 if n == 0 else             *)
(* abs(aspect - x / n))                                                     *)
round_aspect_height(w, h, x) ==
    LET lo == (x * h) \div w
        hi == IF (x * h) % w = 0 THEN lo ELSE lo + 1
    IN Max2(IF height_dist(w, h, x, lo) * height_scale(hi)
                   <= height_dist(w, h, x, hi) * height_scale(lo)
            THEN lo ELSE hi, 1)

(* the two candidates are different and equally close: which one PIL takes *)
(* is then decided by the rounding errors of its float operations          *)
round_aspect_width_tie(w, h, y) ==
    LET lo == (y * w) \div h
    IN (y * w) % h # 0 /\ width_dist(w, h, y, lo) = width_dist(w, h, y, lo + 1)

round_aspect_height_tie(w, h, x) ==
    LET lo == (x * h) \div w
    IN /\ (x * h) % w # 0
       /\ height_dist(w, h, x, lo) * height_scale(lo + 1)
              = height_dist(w, h, x, lo + 1) * height_scale(lo)

(* PIL's Image.thumbnail((x, y)): the image made to fit x by y; an image   *)
(* that fits is left alone                                                  *)
thumbnail(image, x, y) ==
    LET w == image.width
        h == image.height
    IN IF x >= w /\ y >= h THEN image
       ELSE IF x * h >= w * y
            THEN [image EXCEPT !.width = round_aspect_width(w, h, y), !.height = y]
            ELSE [image EXCEPT !.width = x, !.height = round_aspect_height(w, h, x)]

(* the sizes for which thumbnail((x, y)) has two equally close candidates   *)
thumbnail_tie(image, x, y) ==
    LET w == image.width
        h == image.height
    IN /\ ~(x >= w /\ y >= h)
       /\ IF x * h >= w * y
          THEN round_aspect_width_tie(w, h, y)
          ELSE round_aspect_height_tie(w, h, x)

(* lines 69-71: large images are scaled down *)
downscale(image) ==
    IF image.width > max_width \/ image.height > max_height
    THEN thumbnail(image, max_width, max_height)
    ELSE image

(* lines 73-79: ImageEnhance.Sharpness filters the image, which raises for *)
(* a palette image; the exception is swallowed                             *)
sharpen(image) ==
    IF image.mode = "P" THEN image ELSE [image EXCEPT !.sharpened = TRUE]

(* line 20, Image.open: the image of the bytes, not yet loaded, or None    *)
(* when the bytes are not recognised (PIL raises)                          *)
Image_open(image_data) ==
    IF image_data.format = "none" THEN None
    ELSE Some(image_data.image)

(* _optimize_image: the optimized image, or None when image.copy() raises  *)
(* because the pixel data cannot be loaded                                 *)
optimize_image(image) ==
    IF image.truncated THEN None
    ELSE Some(sharpen(downscale(upscale(image))))

(* the modes PIL's JPEG encoder writes, among those of the inputs *)
JpegModes == {"L", "RGB"}

(* filename.replace('.png', '.jpg') *)
replace_png(filename) ==
    [i \in 1..Len(filename) |-> IF filename[i] = ".png" THEN ".jpg" ELSE filename[i]]

(* ContentFile(content) with its name set *)
ContentFile(content, name) == [content |-> content, name |-> name]

(* The parts of save_image (lines 18-53) for an image that was opened: the *)
(* output format of line 29, and whether the encoder of line 38 or 41      *)
(* writes the mode of the image                                            *)
output_format_of(optimized_image) ==
    IF optimized_image.mode = "RGBA" THEN "PNG" ELSE "JPEG"

encoder_writes(optimized_image) ==
    output_format_of(optimized_image) = "PNG" \/ optimized_image.mode \in JpegModes

(* lines 38-47: the encoded file; the name is changed on line 39, after    *)
(* the encoder has written the image                                       *)
encoded_file(optimized_image, filename) ==
    IF output_format_of(optimized_image) = "JPEG"
    THEN ContentFile([format |-> "JPEG", image |-> optimized_image,
                      quality |-> Some(quality)],
                     replace_png(filename))
    ELSE ContentFile([format |-> "PNG", image |-> optimized_image,
                      quality |-> None],
                     filename)

(* save_image with line 39 moved before the call of the encoder: the name  *)
(* is already changed when the encoder raises                              *)
save_image_renamed_early(image_data, filename) ==
    LET image == Image_open(image_data)
        optimized_image == IF image = None THEN None ELSE optimize_image(Val(image))
    IN IF optimized_image = None
       THEN ContentFile(image_data, filename)
       ELSE IF ~encoder_writes(Val(optimized_image))
            THEN ContentFile(image_data,
                             IF output_format_of(Val(optimized_image)) = "JPEG"
                             THEN replace_png(filename) ELSE filename)
            ELSE encoded_file(Val(optimized_image), filename)

(* save_image: the file returned.  Image.open, _optimize_image and the     *)
(* encoder raise inside the try block; the except clause of lines 49-53    *)
(* returns the original bytes under the name as it is then                 *)
save_image(image_data, filename) ==
    LET image == Image_open(image_data)
        optimized_image == IF image = None THEN None ELSE optimize_image(Val(image))
    IN IF optimized_image = None \/ ~encoder_writes(Val(optimized_image))
       THEN ContentFile(image_data, filename)
       ELSE encoded_file(Val(optimized_image), filename)

----------------------------------------------------------------------------
(* SpecImageFile: one call of _optimize_image on the image of a file, or   *)
(* one call of save_image on the bytes of the file, for image files of     *)
(* every mode and of sizes around the two thresholds, files cut short and  *)
(* bytes that are no image.                                                *)

ImageModes == {"RGB", "RGBA", "L", "P", "LA"}

ImageDims == {1, 9, 150, 281, 299, 300, 1200, 2400, 2401, 5000}

SourceImages ==
    { image \in [mode : ImageModes, width : ImageDims, height : ImageDims,
                 truncated : BOOLEAN, sharpened : {FALSE}] :
        ~thumbnail_tie(upscale(image), max_width, max_height) }

NoImage ==
    [mode |-> "", width |-> 0, height |-> 0, truncated |-> TRUE, sharpened |-> FALSE]

ImageFiles ==
    { [format |-> IF image.mode \in JpegModes /\ image.width > image.height
                  THEN "JPEG" ELSE "PNG",
       image |-> image, quality |-> None] : image \in SourceImages }
    \cup { [format |-> "none", image |-> NoImage, quality |-> None] }

Filenames ==
    { <<"7_image_0", ".png">>, <<"photo", ".jpg">>, <<"scan", ".png", "_v2", ".png">> }

InitImageFile ==
    /\ InitProcessor
    /\ pc = "ready"
    /\ args \in [image_data : ImageFiles, filename : Filenames]

(* _optimize_image(image) for the image opened from the bytes *)
OptimizeImage ==
    /\ pc = "ready"
    /\ Image_open(args.image_data) # None
    /\ ret' = optimize_image(Val(Image_open(args.image_data)))
    /\ pc' = IF ret' = None THEN "optimize_raised" ELSE "optimized"
    /\ UNCHANGED <<extraction_metrics, current_page_number, current_page_count,
                   document, db, args>>

(* save_image(image_data, filename) *)
SaveImage ==
    /\ pc = "ready"
    /\ ret' = Some(save_image(args.image_data, args.filename))
    /\ pc' = "saved"
    /\ UNCHANGED <<extraction_metrics, current_page_number, current_page_count,
                   document, db, args>>

NextImageFile == OptimizeImage \/ SaveImage

SpecImageFile == InitImageFile /\ [][NextImageFile]_vars

(* C13: for every decoded image whose width and height are both below 300, *)
(* the image the optimize step returns has its smaller dimension equal to  *)
(* 300; an image with a dimension of 300 or more and both at most 2400     *)
(* keeps its dimensions.                                                    *)
C13_OptimizedSize ==
    pc = "optimized" =>
        LET source == args.image_data.image
            optimized == Val(ret)
        IN /\ (source.width < 300 /\ source.height < 300 =>
                  Min2(optimized.width, optimized.height) = 300)
           /\ ((source.width >= 300 \/ source.height >= 300)
                  /\ source.width <= 2400 /\ source.height <= 2400 =>
                  /\ optimized.width = source.width
                  /\ optimized.height = source.height)

(* decoding, optimizing or encoding the bytes fails: they are no image,    *)
(* the pixel data is cut short, or the mode is one neither encoder is      *)
(* given (PNG is taken for RGBA only, JPEG does not write P or LA)         *)
SaveFails(image_data) ==
    \/ image_data.format = "none"
    \/ image_data.image.truncated
    \/ image_data.image.mode \notin {"RGBA", "RGB", "L"}

(* C14: save_image returns a file for every byte input; when decoding or a  *)
(* later optimize or encode step fails, the file returned holds exactly the *)
(* original bytes under the original file name; only on success are the     *)
(* bytes encoded anew, and the name is then changed from .png to .jpg for   *)
(* JPEG output.                                                              *)
C14_SaveImagePassThrough ==
    pc = "saved" =>
        /\ ret # None
        /\ LET file == Val(ret)
           IN IF SaveFails(args.image_data)
              THEN /\ file.content = args.image_data
                   /\ file.name = args.filename
              ELSE /\ file.content # args.image_data
                   /\ file.content.image.sharpened
                   /\ file.content.format =
                          IF args.image_data.image.mode = "RGBA" THEN "PNG" ELSE "JPEG"
                   /\ file.name = IF file.content.format = "JPEG"
                                  THEN replace_png(args.filename)
                                  ELSE args.filename

(* a palette image of 150 by 150 in a PNG file: it is opened and scaled up, *)
(* the JPEG encoder refuses its mode, and the bytes come back as they were  *)
(* under the name 7_image_0.png                                             *)
C14_Witness ==
    /\ pc = "saved"
    /\ args.image_data.format = "PNG"
    /\ args.image_data.image =
           [mode |-> "P", width |-> 150, height |-> 150,
            truncated |-> FALSE, sharpened |-> FALSE]
    /\ args.filename = <<"7_image_0", ".png">>
    /\ Val(ret) = [content |-> args.image_data, name |-> <<"7_image_0", ".png">>]

----------------------------------------------------------------------------
(* SpecCalls: up to MaxCalls calls, in any order, of the logger, the three *)
(* scorers and update_extraction_metrics on a fresh processor.  args holds *)
(* the number of calls made, the method called last and the page number it *)
(* was given.                                                               *)

MaxCalls == 3

CallTexts == {<<>>, <<63, 97>>, <<10, 10, 97>>}
CallImages == {<<>>, <<ImageWithoutData>>, <<ImageWithData, ImageWithoutData>>}
CallMarkups == {<<>>, <<"<table>">>}
CallResults ==
    [ content           : {<<63, 97>>},
      formatted_content : {<<>>, <<"pdf-page", "pdf-page">>},
      images            : {<<>>, <<ImageWithoutData>>},
      format_info       : {[has_tables |-> Some(FALSE), has_images |-> Some(FALSE)]} ]
CallLogArgs ==
    [ error_type : {"encoding", "other"},
      page_number : {None, Some(3)},
      suggested_fix : {None, Some("Verifier le fichier")} ]

InitCalls ==
    /\ InitProcessor
    /\ pc = "idle"
    /\ args = [calls |-> 0, op |-> "", page_number |-> None]

Called(op, page_number) ==
    /\ args.calls < MaxCalls
    /\ args' = [calls |-> args.calls + 1, op |-> op, page_number |-> page_number]
    /\ UNCHANGED <<current_page_number, document, db, pc>>

(* log_extraction_error(error_type, 'low', message, page_number=...,       *)
(* suggested_fix=...)                                                       *)
LogCall ==
    \E a \in CallLogArgs :
        /\ extraction_metrics' =
               [extraction_metrics EXCEPT !.errors =
                   log_extraction_error(Errors, a.error_type, "low", "message",
                       None, a.page_number, None, a.suggested_fix)]
        /\ ret' = None
        /\ current_page_count' = current_page_count
        /\ Called("log", a.page_number)

(* calculate_text_quality(extracted_text) *)
TextCall ==
    \E extracted_text \in CallTexts :
        LET r == calculate_text_quality(Errors, extracted_text, None)
        IN /\ extraction_metrics' = [extraction_metrics EXCEPT !.errors = r.errors]
           /\ ret' = Some(r.ret)
           /\ current_page_count' = current_page_count
           /\ Called("text", None)

(* calculate_image_quality(images_data, total_images_detected) *)
ImageCall ==
    \E images_data \in CallImages :
        LET r == calculate_image_quality(Errors, images_data,
                                         Some(Max2(Len(images_data), 1)))
        IN /\ extraction_metrics' = [extraction_metrics EXCEPT !.errors = r.errors]
           /\ ret' = Some(r.ret)
           /\ current_page_count' = current_page_count
           /\ Called("image", None)

(* calculate_table_quality(content, format_info) *)
TableCall ==
    \E content \in CallMarkups :
        LET r == calculate_table_quality(Errors, content,
                     [has_tables |-> Some(TRUE), has_images |-> Some(FALSE)])
        IN /\ extraction_metrics' = [extraction_metrics EXCEPT !.errors = r.errors]
           /\ ret' = Some(r.ret)
           /\ current_page_count' = current_page_count
           /\ Called("table", None)

(* update_extraction_metrics(result) *)
UpdateCall ==
    \E result \in CallResults :
        /\ extraction_metrics' = update_extraction_metrics(extraction_metrics, result)
        /\ current_page_count' =
               Some(estimate_page_count(result.content, result.formatted_content))
        /\ ret' = None
        /\ Called("update", None)

NextCalls == LogCall \/ TextCall \/ ImageCall \/ TableCall \/ UpdateCall

SpecCalls == InitCalls /\ [][NextCalls]_vars

(* the counters and the scores of the metrics *)
CountersAndScores(metrics) == [metrics EXCEPT !.errors = <<>>]

(* C15: a call of log_extraction_error appends exactly one record at the    *)
(* end of the error list and leaves the records before it and the other     *)
(* fields of the metrics (counters, scores) unchanged; over any sequence of *)
(* scorer and logger calls the error list only grows at its end; a record   *)
(* logged without a page number carries the current page of the run, which  *)
(* is 1 when no current page has been set.                                  *)
C15_LogAppendsOne ==
    [][/\ Len(Errors') >= Len(Errors)
       /\ SubSeq(Errors', 1, Len(Errors)) = Errors
       /\ (args'.op # "update" =>
              CountersAndScores(extraction_metrics') =
                  CountersAndScores(extraction_metrics))
       /\ (args'.op = "log" =>
              /\ Len(Errors') = Len(Errors) + 1
              /\ Errors'[Len(Errors')].page_number =
                     IF args'.page_number # None THEN Val(args'.page_number)
                     ELSE IF current_page_number = None THEN 1
                     ELSE Val(current_page_number))]_vars

(* after an update that counted two pages and left two diagnostics, a       *)
(* record was logged without a page number: it is the third, on page 1      *)
C15_Witness ==
    /\ args.op = "log"
    /\ args.page_number = None
    /\ current_page_count = Some(2)
    /\ current_page_number = None
    /\ Len(Errors) = 3
    /\ Errors[3].page_number = 1
    /\ Detected = 2

----------------------------------------------------------------------------
(* Claims on the counters (SpecMetrics) *)

(* C16: after any sequence of update_extraction_metrics calls on a fresh    *)
(* processor, total_elements_extracted is at most total_elements_detected   *)
(* and total_elements_detected is at least the number of calls; so the      *)
(* precision save_extraction_metrics computes lies between 0 and 100 (the   *)
(* value written to the document is in hundredths).                         *)
C16_ExtractedAtMostDetected ==
    /\ 0 <= Extracted
    /\ Extracted <= Detected
    /\ Detected >= args.calls
    /\ RLeq(R(0), precision_of(extraction_metrics))
    /\ RLeq(precision_of(extraction_metrics), R(100))
    /\ pc = "saved" =>
          /\ Val(document.extraction_precision) >= 0
          /\ Val(document.extraction_precision) <= 100 * 100

(* two updates with results without content, images or tables, then the     *)
(* save: as many elements detected as calls made, none extracted, and a     *)
(* precision of 0                                                           *)
C16_Witness ==
    /\ pc = "saved"
    /\ args.calls = 2
    /\ Detected = 2
    /\ Extracted = 0
    /\ document.extraction_precision = Some(0)

----------------------------------------------------------------------------
(* Claims on the return value of process_document (Spec) *)

(* C17: when process_document returns, it returns True if and only if the   *)
(* status of the document is completed, and False if and only if the        *)
(* status is error with an error message attached; it does not return       *)
(* while the status is processing.  The status as saved is the same.        *)
C17_ReturnMatchesStatus ==
    pc = "done" =>
        /\ ret \in {Some(TRUE), Some(FALSE)}
        /\ (ret = Some(TRUE) <=> document.status = "completed")
        /\ (ret = Some(FALSE) <=>
               document.status = "error" /\ document.error_message # None)
        /\ document.status # "processing"
        /\ db.document.status = document.status

(* a run on a Word document whose extractor returned nothing: False is      *)
(* returned, the status is error and the message is that of line 372        *)
C17_Witness ==
    /\ pc = "done"
    /\ ret = Some(FALSE)
    /\ args.tried = <<"word">>
    /\ document.status = "error"
    /\ db.document.status = "error"
    /\ document.error_message =
           Some("Erreur lors du traitement: Aucun resultat du processeur")

============================================================================
